---- MODULE Spec2Model ----
(***************************************************************************)
(* Model of mm_2019_sss_1/energy.py: class Energy, the truncated           *)
(* Lennard-Jones energy evaluator of a Monte Carlo particle simulation.    *)
(*                                                                         *)
(* Reals.  A float is a pair <<n, d>>: the rational n/d in lowest terms    *)
(* with d > 0, or one of the IEEE specials <<1,0>> (inf), <<-1,0>> (-inf)  *)
(* and <<0,0>> (nan).  Arithmetic is exact: rounding and signed zeros are  *)
(* not modelled.  Squared distances passed to the potential are 0 or       *)
(* powers of two, for which double arithmetic is itself exact.  Division   *)
(* by zero follows the operand types of the code: 1 / rij2 on a numpy      *)
(* array gives inf, 1.0 / self.cutoff on a Python number raises.           *)
(*                                                                         *)
(* Indices.  Python sequences are 0-based, TLA+ sequences 1-based: the     *)
(* Python element a[i] is the TLA+ element a[i + 1].                       *)
(***************************************************************************)
EXTENDS Integers, Sequences, FiniteSets, TLC

\* ------------------------------------------------------------------ bounds

\* Largest particle count of a geometry.
MaxN == 3

\* Longest array handed directly to lennard_jones_potential by a caller.
MaxRij == 2

\* Side of the periodic cell, in lattice sites; particles sit on the sites,
\* which are LatticeSpacing apart.
BoxLength == 4

\* ------------------------------------------------------- float arithmetic

Abs(x) == IF x < 0 THEN -x ELSE x

Sign(x) == IF x > 0 THEN 1 ELSE IF x < 0 THEN -1 ELSE 0

RECURSIVE GCD(_, _)
GCD(a, b) == IF b = 0 THEN a ELSE GCD(b, a % b)

\* n/d in lowest terms with a positive denominator; d = 0 gives a special.
Norm(n, d) ==
    IF d = 0 THEN <<Sign(n), 0>>
    ELSE LET g == GCD(Abs(n), Abs(d))
             s == Sign(d)
         IN  <<s * (n \div g), s * (d \div g)>>

Float(k) == <<k, 1>>

Zero == Float(0)

One == Float(1)

NaN == <<0, 0>>

Inf == <<1, 0>>

IsNaN(a) == a[1] = 0 /\ a[2] = 0

IsFinite(a) == a[2] > 0

FNeg(a) == <<-a[1], a[2]>>

\* a * b: inf * 0 and anything * nan are nan.
FMul(a, b) == Norm(a[1] * b[1], a[2] * b[2])

\* 1 / a on numpy floats: 1/0 is inf (with a warning), 1/inf is 0.
Recip(a) ==
    IF a[1] = 0 THEN (IF a[2] > 0 THEN Inf ELSE NaN)
    ELSE IF a[1] > 0 THEN <<a[2], a[1]>>
    ELSE <<-a[2], -a[1]>>

\* a / b on numpy floats.
FDiv(a, b) == FMul(a, Recip(b))

\* a + b: inf + (-inf) and anything + nan are nan.
FAdd(a, b) ==
    IF IsFinite(a) /\ IsFinite(b)
    THEN LET g == GCD(a[2], b[2])
         IN  Norm(a[1] * (b[2] \div g) + b[1] * (a[2] \div g),
                  (a[2] \div g) * b[2])
    ELSE IF IsNaN(a) \/ IsNaN(b) THEN NaN
    ELSE IF ~IsFinite(a) /\ ~IsFinite(b) THEN (IF a = b THEN a ELSE NaN)
    ELSE IF ~IsFinite(a) THEN a
    ELSE b

FSub(a, b) == FAdd(a, FNeg(b))

\* a < b: every comparison with nan is False.
FLess(a, b) ==
    IF IsNaN(a) \/ IsNaN(b) THEN FALSE
    ELSE IF ~IsFinite(a) /\ ~IsFinite(b) THEN a[1] < b[1]
    ELSE IF ~IsFinite(a) THEN a[1] < 0
    ELSE IF ~IsFinite(b) THEN b[1] > 0
    ELSE a[1] * b[2] < b[1] * a[2]

\* x ** k and np.power(x, k) for a small positive integer k.
RECURSIVE FPow(_, _)
FPow(x, k) == IF k = 1 THEN x ELSE FMul(x, FPow(x, k - 1))

\* np.pi, as a rational approximation.
np_pi == <<355, 113>>

\* ndarray.sum(): 0.0 for an empty array.
RECURSIVE np_sum(_)
np_sum(arr) == IF arr = <<>> THEN Zero ELSE FAdd(arr[1], np_sum(Tail(arr)))

\* ------------------------------------------------- the Geometry collaborator

Positions == 0 .. (BoxLength - 1)

LatticeSpacing == <<1, 2>>

Volumes == {2, 4}

\* Arrays of particle positions with at most n particles.
CoordinateArrays(n) == UNION {[1 .. k -> Positions] : k \in 0 .. n}

\* Geometry objects: coordinates, num_particles and volume.
Geometries ==
    {[coordinates |-> c, num_particles |-> Len(c), volume |-> v] :
        c \in CoordinateArrays(MaxN), v \in Volumes}

\* Geom.minimum_image_distance(r_i, coordinates): one squared distance per
\* particle of coordinates, the nearest periodic image taken.
minimum_image_distance(r_i, coordinates) ==
    [j \in 1 .. Len(coordinates) |->
        LET d == Abs(coordinates[j] - r_i)
            m == IF BoxLength - d < d THEN BoxLength - d ELSE d
        IN  FMul(Float(m * m), FMul(LatticeSpacing, LatticeSpacing))]

\* ------------------------------------------------------------ class Energy

\* Cutoffs a caller may pass to the constructor.
Cutoffs == {Float(-1), Zero, <<1, 2>>, One}

\* Energy.__init__(Geom, cutoff): the fields of the new object (self.Geom is
\* the variable Geom).
Energy_init(G, cutoff) == [cutoff |-> cutoff, cutoff2 |-> FPow(cutoff, 2)]

\* LJ_of with the twelfth power taken as the cube of the sixth.
LJ_of_cubed(rij2) ==
    LET sig_by_r6  == FPow(FDiv(One, rij2), 3)
        sig_by_r12 == FPow(sig_by_r6, 3)
    IN  FMul(Float(4), FSub(sig_by_r12, sig_by_r6))

\* The pair potential of one squared distance (lines 25-27 on one element).
LJ_of(rij2) ==
    LET sig_by_r6  == FPow(FDiv(One, rij2), 3)
        sig_by_r12 == FPow(sig_by_r6, 2)
    IN  FMul(Float(4), FSub(sig_by_r12, sig_by_r6))

\* Energy.lennard_jones_potential(rij2) on an array: element-wise.
lennard_jones_potential(rij2) == [k \in 1 .. Len(rij2) |-> LJ_of(rij2[k])]

\* Whether a[i] is a valid Python index into a sequence of length n.
IndexOk(i, n) == -n <= i /\ i < n

\* The 1-based position Python's a[i] reads: a negative i counts from the end.
PyPos(i, n) == IF i < 0 THEN i + n + 1 ELSE i + 1

\* np_delete removing the self-distance by value (every 0) instead of by
\* position.
np_delete_by_value(arr, i) == SelectSeq(arr, LAMBDA x : x /= Zero)

\* np.delete(arr, i) for a valid index i.
np_delete(arr, i) ==
    LET k == PyPos(i, Len(arr))
    IN  SubSeq(arr, 1, k - 1) \o SubSeq(arr, k + 1, Len(arr))

\* below_cutoff with <= for <.
below_cutoff_inclusive(red, cutoff2) ==
    SelectSeq(red, LAMBDA x : FLess(x, cutoff2) \/ x = cutoff2)

\* red[red < self.cutoff2]
below_cutoff(red, cutoff2) == SelectSeq(red, LAMBDA x : FLess(x, cutoff2))

Return(v) == [kind |-> "return", val |-> v, exc |-> ""]

Raise(e) == [kind |-> "raise", val |-> NaN, exc |-> e]

\* The locals of get_particle_energy(i_particle, coordinates) at its return,
\* for an index coordinates[i_particle] accepts.
particle_locals(slf, G, i_particle, coordinates) ==
    LET r_i  == coordinates[PyPos(i_particle, Len(coordinates))]
        rij2 == minimum_image_distance(r_i, coordinates)
        red  == np_delete(rij2, i_particle)
        arg  == below_cutoff(red, slf.cutoff2)
        pot  == lennard_jones_potential(arg)
    IN  [rij2 |-> rij2, red |-> red, arg |-> arg, pot |-> pot,
         e_total |-> np_sum(pot)]

\* Energy.get_particle_energy(i_particle, coordinates): what the call gives.
get_particle_energy(slf, G, i_particle, coordinates) ==
    IF ~IndexOk(i_particle, Len(coordinates))
    THEN Raise("IndexError")
    ELSE Return(particle_locals(slf, G, i_particle, coordinates).e_total)

\* pair_energy_loop over range(particle_count - 1): the last particle skipped.
RECURSIVE pair_energy_loop_short(_, _, _, _)
pair_energy_loop_short(slf, G, i_particle, e_total) ==
    IF i_particle >= Len(G.coordinates) - 1 THEN e_total
    ELSE pair_energy_loop_short(slf, G, i_particle + 1,
            FAdd(e_total,
                 particle_locals(slf, G, i_particle, G.coordinates).e_total))

\* The loop of calculate_total_pair_energy from index i_particle on:
\* e_total after the last iteration.
RECURSIVE pair_energy_loop(_, _, _, _)
pair_energy_loop(slf, G, i_particle, e_total) ==
    IF i_particle >= Len(G.coordinates) THEN e_total
    ELSE pair_energy_loop(slf, G, i_particle + 1,
            FAdd(e_total,
                 get_particle_energy(slf, G, i_particle, G.coordinates).val))

\* The arrays handed to lennard_jones_potential by that loop, in order.
RECURSIVE pair_energy_args(_, _, _)
pair_energy_args(slf, G, i_particle) ==
    IF i_particle >= Len(G.coordinates) THEN <<>>
    ELSE <<particle_locals(slf, G, i_particle, G.coordinates).arg>>
            \o pair_energy_args(slf, G, i_particle + 1)

\* total_pair_energy without the division by two.
total_pair_energy_unhalved(slf, G) == Return(pair_energy_loop(slf, G, 0, Zero))

\* Energy.calculate_total_pair_energy(): what the call gives.
total_pair_energy(slf, G) ==
    Return(FDiv(pair_energy_loop(slf, G, 0, Zero), Float(2)))

\* tail_correction with the particle count multiplied in once, not twice.
tail_correction_single_count(slf, G) ==
    IF slf.cutoff = Zero THEN Raise("ZeroDivisionError")
    ELSE LET num_particles  == Float(G.num_particles)
             sig_by_cutoff3 == FPow(FDiv(One, slf.cutoff), 3)
             sig_by_cutoff9 == FPow(sig_by_cutoff3, 3)
             e_correction   == FSub(sig_by_cutoff9, FMul(Float(3), sig_by_cutoff3))
             factor         ==
                 FDiv(FMul(FMul(FDiv(Float(8), Float(9)), np_pi), num_particles),
                      Float(G.volume))
         IN  Return(FMul(e_correction, factor))

\* Energy.calculate_tail_correction(): what the call gives.  self.cutoff is a
\* Python number, so 1.0 / self.cutoff raises on a zero cutoff.
tail_correction(slf, G) ==
    IF slf.cutoff = Zero THEN Raise("ZeroDivisionError")
    ELSE LET num_particles  == Float(G.num_particles)
             sig_by_cutoff3 == FPow(FDiv(One, slf.cutoff), 3)
             sig_by_cutoff9 == FPow(sig_by_cutoff3, 3)
             e_correction   == FSub(sig_by_cutoff9, FMul(Float(3), sig_by_cutoff3))
             factor         ==
                 FMul(FDiv(FMul(FMul(FDiv(Float(8), Float(9)), np_pi), num_particles),
                           Float(G.volume)),
                      num_particles)
         IN  Return(FMul(e_correction, factor))

\* ------------------------------------------------------------------- state

VARIABLES
    self,      \* the Energy object: cutoff, cutoff2
    Geom,      \* the Geometry object self.Geom refers to
    call,      \* the last method called and its arguments
    result,    \* what that call gave: a returned value or a raised exception
    e_total,   \* the local e_total when that call returned (0.0 if it has none)
    lj_args    \* the arrays that call handed to lennard_jones_potential, in order

vars == <<self, Geom, call, result, e_total, lj_args>>

\* Squared separations a caller may pass to lennard_jones_potential.
R2Values == {Zero, <<1, 2>>, One, Float(2)}

R2Arrays == UNION {[1 .. k -> R2Values] : k \in 0 .. MaxRij}

\* Indices a caller may pass: the valid ones and some on either side.
Indices == (-(MaxN + 1)) .. MaxN

\* The state a constructor call leaves, for a geometry of the set geoms.
Constructed(geoms) ==
    /\ Geom \in geoms
    /\ \E cutoff \in Cutoffs : self = Energy_init(Geom, cutoff)
    /\ call = [op |-> "__init__", arg |-> <<>>]
    /\ result = [kind |-> "none", val |-> NaN, exc |-> ""]
    /\ e_total = Zero
    /\ lj_args = <<>>

Init == Constructed(Geometries)

\* Geometries of one volume.
InitPair == Constructed({G \in Geometries : \A v \in Volumes : G.volume <= v})

\* Geometries of one volume whose particles sit on distinct sites, in
\* increasing order.
InitFrame ==
    Constructed({G \in Geometries :
        /\ \A v \in Volumes : G.volume <= v
        /\ \A j \in 1 .. Len(G.coordinates) - 1 :
              G.coordinates[j] < G.coordinates[j + 1]})

Call_lennard_jones_potential ==
    \E rij2 \in R2Arrays :
        /\ call' = [op |-> "lennard_jones_potential", arg |-> <<rij2>>]
        /\ result' = Return(lennard_jones_potential(rij2))
        /\ e_total' = Zero
        /\ lj_args' = <<rij2>>
        /\ UNCHANGED <<self, Geom>>

\* Call_get_particle_energy deleting the particle from the geometry's own
\* coordinate array instead of from a copy of the distances.
Call_get_particle_energy_in_place ==
    \E i_particle \in Indices :
        /\ call' = [op |-> "get_particle_energy", arg |-> <<i_particle>>]
        /\ result' = get_particle_energy(self, Geom, i_particle, Geom.coordinates)
        /\ IF IndexOk(i_particle, Len(Geom.coordinates))
           THEN LET loc == particle_locals(self, Geom, i_particle, Geom.coordinates)
                IN  /\ e_total' = loc.e_total
                    /\ lj_args' = <<loc.arg>>
                    /\ Geom' = [Geom EXCEPT
                                   !.coordinates = np_delete(@, i_particle)]
           ELSE /\ e_total' = Zero
                /\ lj_args' = <<>>
                /\ Geom' = Geom
        /\ UNCHANGED self

Call_get_particle_energy ==
    \E i_particle \in Indices :
        /\ call' = [op |-> "get_particle_energy", arg |-> <<i_particle>>]
        /\ result' = get_particle_energy(self, Geom, i_particle, Geom.coordinates)
        /\ IF IndexOk(i_particle, Len(Geom.coordinates))
           THEN LET loc == particle_locals(self, Geom, i_particle, Geom.coordinates)
                IN  /\ e_total' = loc.e_total
                    /\ lj_args' = <<loc.arg>>
           ELSE /\ e_total' = Zero
                /\ lj_args' = <<>>
        /\ UNCHANGED <<self, Geom>>

Call_calculate_total_pair_energy ==
    /\ call' = [op |-> "calculate_total_pair_energy", arg |-> <<>>]
    /\ result' = total_pair_energy(self, Geom)
    /\ e_total' = pair_energy_loop(self, Geom, 0, Zero)
    /\ lj_args' = pair_energy_args(self, Geom, 0)
    /\ UNCHANGED <<self, Geom>>

Call_calculate_tail_correction ==
    /\ call' = [op |-> "calculate_tail_correction", arg |-> <<>>]
    /\ result' = tail_correction(self, Geom)
    /\ e_total' = Zero
    /\ lj_args' = <<>>
    /\ UNCHANGED <<self, Geom>>

\* The energy calls of a simulation step.
NextPair ==
    \/ Call_get_particle_energy
    \/ Call_calculate_total_pair_energy

NextTail == Call_calculate_tail_correction

\* Every method, in any order.
Next ==
    \/ Call_lennard_jones_potential
    \/ Call_get_particle_energy
    \/ Call_calculate_total_pair_energy
    \/ Call_calculate_tail_correction

\* Per-particle and total pair energies over every geometry.
Spec == InitPair /\ [][NextPair]_vars

\* The tail correction over every geometry and volume.
SpecTail == Init /\ [][NextTail]_vars

\* Any sequence of calls of the four methods.
SpecFrame == InitFrame /\ [][Next]_vars

\* ------------------------------------------------------ claims: helpers

\* The sum of f over the finite set S (0.0 for the empty set).
RECURSIVE SumOverSet(_, _)
SumOverSet(S, f) ==
    IF S = {} THEN Zero
    ELSE LET x == CHOOSE y \in S : TRUE
         IN  FAdd(f[x], SumOverSet(S \ {x}, f))

NumParticles == Len(Geom.coordinates)

\* The squared distance the collaborator reports from particle i to
\* particle j (0-based).
D2(i, j) == minimum_image_distance(Geom.coordinates[i + 1], Geom.coordinates)[j + 1]

\* The particles j other than i that lie strictly inside the cutoff of i.
Neighbours(i) ==
    {j \in 0 .. NumParticles - 1 : j /= i /\ FLess(D2(i, j), self.cutoff2)}

\* The squared distances of Neighbours(i), in particle order from j on.
RECURSIVE NeighbourDistances(_, _)
NeighbourDistances(i, j) ==
    IF j >= NumParticles THEN <<>>
    ELSE (IF j \in Neighbours(i) THEN <<D2(i, j)>> ELSE <<>>)
            \o NeighbourDistances(i, j + 1)

\* The unordered pairs of distinct particles inside the cutoff, as <<i, j>>
\* with i < j.
PairsInCutoff ==
    {p \in (0 .. NumParticles - 1) \X (0 .. NumParticles - 1) :
        p[1] < p[2] /\ FLess(D2(p[1], p[2]), self.cutoff2)}

\* The pair energy with each unordered pair counted once.
PairSum == SumOverSet(PairsInCutoff, [p \in PairsInCutoff |-> LJ_of(D2(p[1], p[2]))])

SymmetricDistances ==
    \A i, j \in 0 .. NumParticles - 1 : D2(i, j) = D2(j, i)

ValidParticleCall ==
    /\ call.op = "get_particle_energy"
    /\ 0 <= call.arg[1]
    /\ call.arg[1] < NumParticles

\* ------------------------------------------------------------------ claims

\* C1: get_particle_energy(i, coordinates) for a valid i is the sum of the
\* pair potential over exactly the particles j /= i whose squared distance is
\* strictly below cutoff squared; it is 0.0 when there is none.
C1_ParticleEnergyIsCutoffSum ==
    ValidParticleCall =>
        LET i == call.arg[1]
        IN  /\ result = Return(SumOverSet(Neighbours(i),
                                 [j \in Neighbours(i) |-> LJ_of(D2(i, j))]))
            /\ (Neighbours(i) = {} => result = Return(Zero))

\* A call with three particles, one strictly inside the cutoff and one at
\* exactly the cutoff, that gives a nonzero energy.
C1_Witness ==
    /\ ValidParticleCall
    /\ NumParticles = 3
    /\ \E j \in 0 .. NumParticles - 1 :
          j /= call.arg[1] /\ D2(call.arg[1], j) = self.cutoff2
    /\ Neighbours(call.arg[1]) /= {}
    /\ result.kind = "return"
    /\ IsFinite(result.val)
    /\ result.val /= Zero

\* C2: calculate_total_pair_energy() is one half of the sum of
\* get_particle_energy(i, Geom.coordinates) over every index 0 .. N-1, each
\* taken once; it is 0.0 for N = 0.
C2_TotalIsHalfOfParticleSum ==
    call.op = "calculate_total_pair_energy" =>
        LET I == 0 .. NumParticles - 1
            per_particle ==
                [i \in I |-> get_particle_energy(self, Geom, i, Geom.coordinates).val]
        IN  /\ result = Return(FDiv(SumOverSet(I, per_particle), Float(2)))
            /\ (NumParticles = 0 => result = Return(Zero))

\* A total over three particles that is finite and nonzero.
C2_Witness ==
    /\ call.op = "calculate_total_pair_energy"
    /\ NumParticles = 3
    /\ IsFinite(result.val)
    /\ result.val /= Zero

\* C3: with symmetric squared distances, the sum calculate_total_pair_energy
\* accumulates before halving counts every unordered pair inside the cutoff
\* exactly twice, so the returned total is the sum of the pair potential over
\* those pairs, each counted once; pairs at or beyond the cutoff add nothing.
C3_EachPairCountedTwiceThenHalved ==
    (call.op = "calculate_total_pair_energy" /\ SymmetricDistances) =>
        /\ e_total = FMul(Float(2), PairSum)
        /\ result = Return(PairSum)

\* A total over three particles with a pair inside and a pair outside the
\* cutoff.
C3_Witness ==
    /\ call.op = "calculate_total_pair_energy"
    /\ SymmetricDistances
    /\ NumParticles = 3
    /\ PairsInCutoff /= {}
    /\ Cardinality(PairsInCutoff) < 3
    /\ IsFinite(result.val)
    /\ result.val /= Zero

\* C4: no evaluator with a cutoff that is zero or negative ever exists.
C4_NoNonPositiveCutoff == FLess(Zero, self.cutoff)

\* C5: get_particle_energy(i, coordinates) with i outside [0, N), negative or
\* too large, raises IndexError (stated for evaluators with a positive cutoff).
C5_OutOfRangeRaisesIndexError ==
    (/\ FLess(Zero, self.cutoff)
     /\ call.op = "get_particle_energy"
     /\ (call.arg[1] < 0 \/ call.arg[1] >= NumParticles))
        => result = Raise("IndexError")

\* C6: with N = 0, calculate_tail_correction() returns 0.0 for every volume
\* and every cutoff an evaluator was constructed with.
C6_TailIsZeroWithoutParticles ==
    (call.op = "calculate_tail_correction" /\ Geom.num_particles = 0)
        => result = Return(Zero)

\* The tail correction as the formula states it, for a nonzero cutoff:
\* (8/9) * pi * (N / V) * N * ((1/cutoff)^9 - 3 * (1/cutoff)^3).
TailFormula(N, V, cutoff) ==
    FMul(FMul(FMul(FMul(FDiv(Float(8), Float(9)), np_pi),
                   FDiv(Float(N), Float(V))),
              Float(N)),
         FSub(FPow(Recip(cutoff), 9), FMul(Float(3), FPow(Recip(cutoff), 3))))

\* C7: calculate_tail_correction() depends on (N, V, cutoff) only: every
\* geometry gives the outcome of the geometry with the same particle count
\* and volume whose particles all sit on site 0, so any two geometries with
\* the same count and volume agree, whatever their coordinates or particle
\* order; for a nonzero cutoff the outcome is the formula's value, and
\* doubling V halves it.
C7_TailDependsOnCountVolumeCutoff ==
    call.op = "calculate_tail_correction" =>
        /\ tail_correction(self,
              [Geom EXCEPT !.coordinates = [j \in 1 .. NumParticles |-> 0]]) = result
        /\ self.cutoff /= Zero =>
              /\ result = Return(TailFormula(Geom.num_particles, Geom.volume, self.cutoff))
              /\ tail_correction(self, [Geom EXCEPT !.volume = 2 * Geom.volume])
                    = Return(FMul(<<1, 2>>, result.val))

\* A nonzero tail correction of three particles.
C7_Witness ==
    /\ call.op = "calculate_tail_correction"
    /\ Geom.num_particles = 3
    /\ self.cutoff /= Zero
    /\ result.kind = "return"
    /\ result.val /= Zero

\* The pair potential as the formula states it: 4 * ((1/r2)^6 - (1/r2)^3).
LJFormula(r2) ==
    FMul(Float(4), FSub(FPow(Recip(r2), 6), FPow(Recip(r2), 3)))

\* C8: lennard_jones_potential gives 4 * ((1/r2)^6 - (1/r2)^3) for every
\* r2 > 0, 0.0 at r2 = 1.0, and on an array works element by element: the
\* result has the array's length and order.
C8_PotentialFormulaElementwise ==
    call.op = "lennard_jones_potential" =>
        LET rij2 == call.arg[1]
        IN  /\ result.kind = "return"
            /\ Len(result.val) = Len(rij2)
            /\ \A k \in 1 .. Len(rij2) :
                  /\ FLess(Zero, rij2[k]) => result.val[k] = LJFormula(rij2[k])
                  /\ rij2[k] = One => result.val[k] = Zero

\* An array of two different positive separations with two different
\* potentials.
C8_Witness ==
    /\ call.op = "lennard_jones_potential"
    /\ Len(call.arg[1]) = 2
    /\ FLess(Zero, call.arg[1][1])
    /\ FLess(call.arg[1][1], call.arg[1][2])
    /\ result.val[1] /= result.val[2]

\* C9, as stated: in every get_particle_energy call with a valid index and
\* every calculate_total_pair_energy call, no squared distance handed to the
\* pair potential is 0 (stated for evaluators with a positive cutoff).
C9_PotentialNeverAtZero ==
    (/\ FLess(Zero, self.cutoff)
     /\ (ValidParticleCall \/ call.op = "calculate_total_pair_energy")) =>
        \A a \in 1 .. Len(lj_args) :
            \A k \in 1 .. Len(lj_args[a]) : lj_args[a][k] /= Zero

\* C9, amended: the array handed to the pair potential for particle i holds
\* exactly the entries at the positions j /= i that are below cutoff squared,
\* in order, so the self-distance never reaches it; a 0 reaches it exactly
\* when cutoff squared is positive and another particle is reported at
\* squared distance 0 from i.
C9_SelfEntryRemovedByPosition ==
    /\ ValidParticleCall =>
          LET i == call.arg[1]
          IN  /\ lj_args = <<NeighbourDistances(i, 0)>>
              /\ Len(lj_args[1]) <= NumParticles - 1
              /\ (\E k \in 1 .. Len(lj_args[1]) : lj_args[1][k] = Zero)
                    <=> /\ FLess(Zero, self.cutoff2)
                        /\ \E j \in 0 .. NumParticles - 1 :
                              j /= i /\ D2(i, j) = Zero
    /\ call.op = "calculate_total_pair_energy" =>
          /\ Len(lj_args) = NumParticles
          /\ \A i \in 0 .. NumParticles - 1 :
                lj_args[i + 1] = NeighbourDistances(i, 0)

\* A call for a particle that shares its site with another one: the
\* potential is evaluated at 0 and the energy is nan.
C9_Witness ==
    /\ ValidParticleCall
    /\ NumParticles = 3
    /\ \E j \in 0 .. NumParticles - 1 :
          j /= call.arg[1] /\ D2(call.arg[1], j) = Zero
    /\ \E k \in 1 .. Len(lj_args[1]) : lj_args[1][k] = Zero
    /\ result = Return(NaN)

\* C10: no call changes the evaluator's cutoff or cutoff squared, which stays
\* cutoff * cutoff, nor the geometry's coordinates, particle count or volume;
\* a call repeated gives what it gave before.
C10_CallsChangeNothing ==
    /\ [](self.cutoff2 = FMul(self.cutoff, self.cutoff))
    /\ [][/\ self' = self
          /\ Geom' = Geom
          /\ (call'.op = call.op /\ call'.arg = call.arg) => result' = result]_vars

\* A nonzero total over three particles, after which further calls follow.
C10_Witness ==
    /\ call.op = "calculate_total_pair_energy"
    /\ NumParticles = 3
    /\ self.cutoff2 = FMul(self.cutoff, self.cutoff)
    /\ result.val /= Zero

====
